---- MODULE Spec2Model ----
(***************************************************************************)
(* Look-ahead scheduling of score playback (playAllNotes folding           *)
(* scheduleNotePlay over one-shot timers) and the AudioPlayer engine       *)
(* (initialize / resume / playChord / playNote / getFrequency).            *)
(*                                                                         *)
(* Units.  Note durations are counted in half beats, BEAT_DURATION in      *)
(* half seconds per beat, so note.duration * BEAT_DURATION and every       *)
(* offset is a whole number of quarter seconds.  The timer delay           *)
(* (delay * 1000) is in milliseconds.  The audio timeline clock            *)
(* (currentTime) is counted in quarter seconds as well.  Frequencies are   *)
(* in hundredths of a hertz.  On these values number arithmetic is exact;   *)
(* the rounding of large delays is modelled apart (SpecFold).              *)
(***************************************************************************)
EXTENDS Integers, Sequences, FiniteSets, TLC

VARIABLES
    env,              \* "none": no window; "noaudio": window without AudioContext; "browser"
    audioContext,     \* 0 is null, otherwise the identity of the AudioContext
    isInitialized,
    ctxState,         \* AudioContext.state: "none" (no context), "suspended", "running"
    resumePending,    \* audioContext.resume() was called and has not settled
    currentTime,      \* audioContext.currentTime
    contextsCreated,  \* number of AudioContext constructions
    units,            \* the oscillator + gain units of the latest playChord call
    unitsCreated,     \* number of oscillators created so far
    BEAT_DURATION,
    nowMs,            \* the event loop's clock
    timers,           \* pending one-shot timed actions
    timerIds,         \* number of timers armed so far
    runs,             \* the playAllNotes calls made so far, in order
    fired,            \* the callbacks invoked so far, in order
    uncaught,         \* a timer callback has raised (an uncaught error was reported)
    fold,             \* the latest fold over a score: its notes and the delays it computed
    lastOp            \* the page's latest call on the engine: its name, whether it
                      \* raised, and the keys it was given (playChord)

engineVars == <<env, audioContext, isInitialized, ctxState, resumePending,
                currentTime, contextsCreated, units, unitsCreated>>
schedVars == <<BEAT_DURATION, nowMs, timers, timerIds, runs, fired, uncaught, fold>>
vars == <<engineVars, schedVars, lastOp>>

----------------------------------------------------------------------------
(* Bounds *)

\* timed actions armed in one behaviour (a run over N notes arms N + 1)
MaxTimers == 3
\* quarter seconds the event loop's clock runs for
MaxTicks == 4
\* steps the timeline clock advances
MaxAudioTime == 1
\* oscillators created by direct playChord calls
MaxUnits == 3
\* notes of a score whose delays are folded as doubles
MaxFoldNotes == 3

----------------------------------------------------------------------------
(* Pitch table: getFrequency *)

noteMap ==
    [n \in {"c/4", "d/4", "e/4", "f/4", "g/4", "a/4", "b/4",
            "c/5", "d/5", "e/5", "f/5", "g/5", "a/5", "b/5"} |->
        CASE n = "c/4" -> 26163
          [] n = "d/4" -> 29366
          [] n = "e/4" -> 32963
          [] n = "f/4" -> 34923
          [] n = "g/4" -> 39200
          [] n = "a/4" -> 44000
          [] n = "b/4" -> 49388
          [] n = "c/5" -> 52325
          [] n = "d/5" -> 58733
          [] n = "e/5" -> 65925
          [] n = "f/5" -> 69846
          [] n = "g/5" -> 78399
          [] n = "a/5" -> 88000
          [] n = "b/5" -> 98777]

\* noteMap is an object literal: names it does not define itself are looked
\* up on Object.prototype, where these (among others) are functions or objects.
ObjectPrototypeKeys == {"constructor", "toString", "valueOf", "__proto__"}

\* noteMap[note]
noteMapGet(note) ==
    IF note \in DOMAIN noteMap THEN [kind |-> "number", hz |-> noteMap[note]]
    ELSE IF note \in ObjectPrototypeKeys THEN [kind |-> "object", hz |-> 0]
    ELSE [kind |-> "undefined", hz |-> 0]

\* JavaScript truthiness of a looked-up value
Truthy(v) == v.kind = "object" \/ (v.kind = "number" /\ v.hz # 0)

\* return noteMap[note] || 440
getFrequency(note) ==
    IF Truthy(noteMapGet(note)) THEN noteMapGet(note)
    ELSE [kind |-> "number", hz |-> 44000]

----------------------------------------------------------------------------
(* Audio engine *)

NoUnit == [key |-> "", frequency |-> 0, configured |-> FALSE, duration |-> 0,
           gainSetAt |-> 0, rampEndAt |-> 0, startAt |-> 0, stopAt |-> 0]

\* The value audioContext.currentTime yields at the r-th read of a call that
\* began at t0, when the timeline clock advances by one step just before read
\* number adv (adv = 0: it does not advance during the call).
ReadTime(t0, adv, r) == IF adv # 0 /\ r >= adv THEN t0 + 1 ELSE t0

\* playNote(frequency, duration) for the key at position i of the chord; the
\* body reads currentTime four times (reads 4i-3 .. 4i).  Assigning a value
\* that is not a finite number to oscillator.frequency.value raises TypeError
\* and leaves the unit created, connected and never started.
playNote(key, frequency, duration, t0, adv, i) ==
    IF frequency.kind # "number"
    THEN [NoUnit EXCEPT !.key = key, !.duration = duration]
    ELSE [key |-> key, frequency |-> frequency.hz, configured |-> TRUE,
          duration |-> duration,
          gainSetAt |-> ReadTime(t0, adv, 4 * i - 3),
          rampEndAt |-> ReadTime(t0, adv, 4 * i - 2) + duration,
          startAt   |-> ReadTime(t0, adv, 4 * i - 1),
          stopAt    |-> ReadTime(t0, adv, 4 * i) + duration]

\* Position of the first key whose playNote raises, 0 if none does.
ThrowsAt(keys) ==
    LET bad == {i \in 1..Len(keys) : getFrequency(keys[i]).kind # "number"}
    IN IF bad = {} THEN 0 ELSE CHOOSE i \in bad : \A j \in bad : i <= j

\* Number of currentTime reads a playChord(keys, _) call performs.
Reads(keys) ==
    IF ThrowsAt(keys) = 0 THEN 4 * Len(keys) ELSE 4 * (ThrowsAt(keys) - 1)

\* playChord without `if (!this.audioContext) return`
playChordNoGuard(ctx, keys, duration, t0, adv) ==
    LET n == IF ThrowsAt(keys) = 0 THEN Len(keys) ELSE ThrowsAt(keys)
    IN [units |-> [i \in 1..n |->
                     playNote(keys[i], getFrequency(keys[i]), duration, t0, adv, i)],
        threw |-> ThrowsAt(keys) # 0,
        called |-> TRUE]

\* playChord(keys, duration) on context ctx at timeline instant t0: the units
\* created, in order, and whether the call raised.
playChord(ctx, keys, duration, t0, adv) ==
    IF ctx = 0 THEN [units |-> <<>>, threw |-> FALSE, called |-> FALSE]
    ELSE LET n == IF ThrowsAt(keys) = 0 THEN Len(keys) ELSE ThrowsAt(keys)
         IN [units |-> [i \in 1..n |->
                          playNote(keys[i], getFrequency(keys[i]), duration, t0, adv, i)],
             threw |-> ThrowsAt(keys) # 0,
             called |-> TRUE]

\* The timeline-clock advances that can happen during a playChord call.
Advances(keys) ==
    IF audioContext # 0 /\ ctxState = "running" /\ currentTime < MaxAudioTime
    THEN 0..Reads(keys) ELSE {0}

\* Effect of a playChord call on the engine's variables.
PlayChordEffect(keys, duration, adv) ==
    LET r == playChord(audioContext, keys, duration, currentTime, adv)
    IN /\ units' = IF r.called THEN r.units ELSE units
       /\ unitsCreated' = unitsCreated + Len(r.units)
       /\ currentTime' = IF adv # 0 THEN currentTime + 1 ELSE currentTime
       /\ UNCHANGED <<env, audioContext, isInitialized, ctxState, resumePending,
                      contextsCreated>>

\* the guard without the isInitialized flag
InitializeGuardNoFlag == env # "none"

\* the guard without the test for a window
InitializeGuardNoWindow == ~isInitialized

\* if (!this.isInitialized && typeof window !== 'undefined')
InitializeGuard == ~isInitialized /\ env # "none"

\* initialize() setting the flag before constructing the context
InitializeFlagFirst ==
    /\ IF InitializeGuard
       THEN IF env # "browser"
            THEN /\ isInitialized' = TRUE
                 /\ UNCHANGED <<audioContext, ctxState, contextsCreated>>
                 /\ lastOp' = [op |-> "initialize", threw |-> TRUE, keys |-> <<>>]
            ELSE /\ audioContext' = contextsCreated + 1
                 /\ contextsCreated' = contextsCreated + 1
                 /\ isInitialized' = TRUE
                 /\ ctxState' \in {"suspended", "running"}
                 /\ lastOp' = [op |-> "initialize", threw |-> FALSE, keys |-> <<>>]
       ELSE /\ UNCHANGED <<audioContext, isInitialized, ctxState, contextsCreated>>
            /\ lastOp' = [op |-> "initialize", threw |-> FALSE, keys |-> <<>>]
    /\ UNCHANGED <<env, resumePending, currentTime, units, unitsCreated>>
    /\ UNCHANGED schedVars

\* async initialize().  With a window that has neither AudioContext nor
\* webkitAudioContext the constructor expression is undefined and `new` raises
\* (the returned promise rejects) before either field is assigned, as does the
\* evaluation of `window.AudioContext` without a window.  A new context starts
\* "suspended" or "running", as the autoplay policy decides.
Initialize ==
    /\ IF InitializeGuard
       THEN IF env # "browser"
            THEN /\ UNCHANGED <<audioContext, isInitialized, ctxState, contextsCreated>>
                 /\ lastOp' = [op |-> "initialize", threw |-> TRUE, keys |-> <<>>]
            ELSE /\ audioContext' = contextsCreated + 1
                 /\ contextsCreated' = contextsCreated + 1
                 /\ isInitialized' = TRUE
                 /\ ctxState' \in {"suspended", "running"}
                 /\ lastOp' = [op |-> "initialize", threw |-> FALSE, keys |-> <<>>]
       ELSE /\ UNCHANGED <<audioContext, isInitialized, ctxState, contextsCreated>>
            /\ lastOp' = [op |-> "initialize", threw |-> FALSE, keys |-> <<>>]
    /\ UNCHANGED <<env, resumePending, currentTime, units, unitsCreated>>
    /\ UNCHANGED schedVars

\* The code finds a window where there was none (`typeof window` is evaluated
\* at every call): the same engine is later used in a browser context.
WindowAppears ==
    /\ env = "none"
    /\ env' = "browser"
    /\ UNCHANGED <<audioContext, isInitialized, ctxState, resumePending, currentTime,
                   contextsCreated, units, unitsCreated, lastOp>>
    /\ UNCHANGED schedVars

\* the guard without the test of the context's state
ResumeGuardNoState == audioContext # 0

\* if (this.audioContext && this.audioContext.state === 'suspended')
ResumeGuard == audioContext # 0 /\ ctxState = "suspended"

\* async resume(): up to the await
Resume ==
    /\ resumePending' = IF ResumeGuard THEN TRUE ELSE resumePending
    /\ lastOp' = [op |-> "resume", threw |-> FALSE, keys |-> <<>>]
    /\ UNCHANGED <<env, audioContext, isInitialized, ctxState, currentTime,
                   contextsCreated, units, unitsCreated>>
    /\ UNCHANGED schedVars

\* audioContext.resume() settles: the context is running
ResumeSettle ==
    /\ resumePending
    /\ resumePending' = FALSE
    /\ ctxState' = "running"
    /\ UNCHANGED <<env, audioContext, isInitialized, currentTime, contextsCreated,
                   units, unitsCreated, lastOp>>
    /\ UNCHANGED schedVars

\* The timeline clock advances (only a running context's clock does).
AudioTick ==
    /\ audioContext # 0
    /\ ctxState = "running"
    /\ currentTime < MaxAudioTime
    /\ currentTime' = currentTime + 1
    /\ UNCHANGED <<env, audioContext, isInitialized, ctxState, resumePending,
                   contextsCreated, units, unitsCreated, lastOp>>
    /\ UNCHANGED schedVars

\* Key lists and durations (quarter seconds) of direct playChord calls.
ChordKeyLists ==
    {<<n>> : n \in DOMAIN noteMap \cup {"x/9", "", "constructor"}}
    \cup {<<>>, <<"c/4", "e/4", "g/4">>, <<"c/4", "c/4">>, <<"h/4", "a/5">>,
          <<"c/4", "toString", "e/4">>}
ChordDurations == {1, 2}

\* A caller's playChord(keys, duration)
PlayChordCall(keys, duration, adv) ==
    /\ unitsCreated + Len(keys) <= MaxUnits
    /\ PlayChordEffect(keys, duration, adv)
    /\ lastOp' = [op |-> "playChord",
                  threw |-> playChord(audioContext, keys, duration, currentTime, adv).threw,
                  keys |-> keys]
    /\ UNCHANGED schedVars

----------------------------------------------------------------------------
(* Scheduler *)

\* One quarter second in milliseconds: a delay of q quarter seconds is
\* (q / 4) * 1000 ms.
QuarterSecondMs == 1000 \div 4

\* delay * 1000
ToMs(delay) == delay * QuarterSecondMs

\* type Note = { keys: string[], duration: number }
\* The notes runs are made of: a chord, a longer note, a note of no length
\* and a note whose key is not a pitch name.
Notes ==
    {[keys |-> <<"c/4", "e/4">>, duration |-> 1],
     [keys |-> <<"d/5">>, duration |-> 2],
     [keys |-> <<"g/4">>, duration |-> 0],
     [keys |-> <<"toString">>, duration |-> 1]}
NoteSeqs == UNION {[1..n -> Notes] : n \in 0..(MaxTimers - 1)}
BeatDurations == {1, 2}

\* scheduleNotePlay returning the note's own length instead of the accumulated delay
scheduleNotePlayNoSum(note, index, delay) ==
    [action |-> [kind |-> "note", index |-> index, keys |-> note.keys,
                 duration |-> note.duration * BEAT_DURATION,
                 delayMs |-> ToMs(delay)],
     next |-> note.duration * BEAT_DURATION]

\* scheduleNotePlay arming the note after its own length instead of at the
\* accumulated delay
scheduleNotePlayOwnLength(note, index, delay) ==
    [action |-> [kind |-> "note", index |-> index, keys |-> note.keys,
                 duration |-> note.duration * BEAT_DURATION,
                 delayMs |-> ToMs(note.duration * BEAT_DURATION)],
     next |-> delay + (note.duration * BEAT_DURATION)]

\* scheduleNotePlay passing the note's length in beats to playChord
scheduleNotePlayBeats(note, index, delay) ==
    [action |-> [kind |-> "note", index |-> index, keys |-> note.keys,
                 duration |-> note.duration,
                 delayMs |-> ToMs(delay)],
     next |-> delay + (note.duration * BEAT_DURATION)]

\* scheduleNotePlay(note, index, delay, audioPlayer, onNoteStart): the timed
\* action it arms and the accumulated delay it returns.
scheduleNotePlay(note, index, delay) ==
    [action |-> [kind |-> "note", index |-> index, keys |-> note.keys,
                 duration |-> note.duration * BEAT_DURATION,
                 delayMs |-> ToMs(delay)],
     next |-> delay + (note.duration * BEAT_DURATION)]

\* the fold with the completion armed at once (scheduleAction(onComplete, 0))
RECURSIVE reduceCompleteAtOnce(_, _, _)
reduceCompleteAtOnce(notes, i, delay) ==
    IF i > Len(notes)
    THEN <<[kind |-> "complete", index |-> Len(notes), keys |-> <<>>,
            duration |-> 0, delayMs |-> 0]>>
    ELSE LET r == scheduleNotePlay(notes[i], i - 1, delay)
         IN <<r.action>> \o reduceCompleteAtOnce(notes, i + 1, r.next)

\* notes.reduce((delay, note, index) => scheduleNotePlay(...), 0) from position
\* i on (1-based here, index i - 1 in the code), then
\* scheduleAction(onComplete, totalDelay * 1000): the timed actions in the
\* order they are armed.
RECURSIVE reduce(_, _, _)
reduce(notes, i, delay) ==
    IF i > Len(notes)
    THEN <<[kind |-> "complete", index |-> Len(notes), keys |-> <<>>,
            duration |-> 0, delayMs |-> ToMs(delay)]>>
    ELSE LET r == scheduleNotePlay(notes[i], i - 1, delay)
         IN <<r.action>> \o reduce(notes, i + 1, r.next)

\* playAllNotes returning early on an empty score
playAllNotesSkipEmpty(notes) == IF notes = <<>> THEN <<>> ELSE reduce(notes, 1, 0)

playAllNotes(notes) == reduce(notes, 1, 0)

\* scheduleAction(callback, ms): a one-shot timer armed now
scheduleAction(action, id, run) ==
    [id |-> id, run |-> run, armedAt |-> nowMs, kind |-> action.kind,
     index |-> action.index, keys |-> action.keys, duration |-> action.duration,
     delayMs |-> action.delayMs]

DueAt(t) == t.armedAt + t.delayMs

\* u is delivered before t: it is due earlier, or due at the same time and
\* armed earlier.
Before(u, t) == DueAt(u) < DueAt(t) \/ (DueAt(u) = DueAt(t) /\ u.id < t.id)

\* The event loop may deliver t: it is due, however late, and no pending timer
\* comes before it.
CanFire(t) ==
    /\ t \in timers
    /\ nowMs >= DueAt(t)
    /\ \A u \in timers : ~Before(u, t)

\* playAllNotes running a completion that is due at once before it returns
PlayAllNotesCompleteAtOnce(notes) ==
    /\ timerIds + Len(notes) + 1 <= MaxTimers
    /\ LET armed == playAllNotes(notes)
           run == Len(runs) + 1
           n == Len(armed)
           all == {scheduleAction(armed[k], timerIds + k, run) : k \in 1..n}
           last == scheduleAction(armed[n], timerIds + n, run)
       IN /\ timers' = timers \cup (IF last.delayMs = 0 THEN all \ {last} ELSE all)
          /\ fired' = IF last.delayMs = 0
                      THEN Append(fired, [cb |-> "onComplete", run |-> run,
                                          index |-> last.index, keys |-> last.keys,
                                          duration |-> last.duration,
                                          due |-> DueAt(last), latestRun |-> run])
                      ELSE fired
          /\ timerIds' = timerIds + n
          /\ runs' = Append(runs, [notes |-> notes, startedAt |-> nowMs, armed |-> armed])
    /\ UNCHANGED <<fold, BEAT_DURATION, nowMs, uncaught, lastOp>>
    /\ UNCHANGED engineVars

\* A caller's playAllNotes(notes, audioPlayer, onNoteStart, onComplete)
PlayAllNotes(notes) ==
    /\ timerIds + Len(notes) + 1 <= MaxTimers
    /\ LET armed == playAllNotes(notes)
           run == Len(runs) + 1
       IN /\ timers' = timers \cup
                 {scheduleAction(armed[k], timerIds + k, run) : k \in 1..Len(armed)}
          /\ timerIds' = timerIds + Len(armed)
          /\ runs' = Append(runs, [notes |-> notes, startedAt |-> nowMs, armed |-> armed])
    /\ UNCHANGED <<fold, BEAT_DURATION, nowMs, fired, uncaught, lastOp>>
    /\ UNCHANGED engineVars

\* Time passes on the event loop while timed actions are pending.
Tick ==
    /\ timers # {}
    /\ nowMs < MaxTicks * QuarterSecondMs
    /\ nowMs' = nowMs + QuarterSecondMs
    /\ UNCHANGED <<fold, BEAT_DURATION, timers, timerIds, runs, fired, uncaught, lastOp>>
    /\ UNCHANGED engineVars

Callback(t, cb) ==
    [cb |-> cb, run |-> t.run, index |-> t.index, keys |-> t.keys,
     duration |-> t.duration, due |-> DueAt(t), latestRun |-> Len(runs)]

\* the note's callback giving up when there is no audio
FireNoteAudioOnly(t, adv) ==
    /\ CanFire(t)
    /\ t.kind = "note"
    /\ timers' = timers \ {t}
    /\ fired' = IF audioContext = 0 THEN fired
                ELSE fired \o <<Callback(t, "onNoteStart"), Callback(t, "playChord")>>
    /\ PlayChordEffect(t.keys, t.duration, adv)
    /\ uncaught' =
           (uncaught \/ playChord(audioContext, t.keys, t.duration, currentTime, adv).threw)
    /\ UNCHANGED <<fold, BEAT_DURATION, nowMs, timerIds, runs, lastOp>>

\* the note's callback re-arming the run's pending actions relative to the
\* time it actually ran
FireNoteRearm(t, adv) ==
    /\ CanFire(t)
    /\ t.kind = "note"
    /\ timers' = {IF u.run = t.run
                  THEN [u EXCEPT !.delayMs = u.delayMs + (nowMs - DueAt(t))]
                  ELSE u : u \in timers \ {t}}
    /\ fired' = fired \o <<Callback(t, "onNoteStart"), Callback(t, "playChord")>>
    /\ PlayChordEffect(t.keys, t.duration, adv)
    /\ uncaught' =
           (uncaught \/ playChord(audioContext, t.keys, t.duration, currentTime, adv).threw)
    /\ UNCHANGED <<fold, BEAT_DURATION, nowMs, timerIds, runs, lastOp>>

\* The timer of a note fires:
\*   onNoteStart(index); audioPlayer.playChord(note.keys, note.duration * BEAT_DURATION)
FireNote(t, adv) ==
    /\ CanFire(t)
    /\ t.kind = "note"
    /\ timers' = timers \ {t}
    /\ fired' = fired \o <<Callback(t, "onNoteStart"), Callback(t, "playChord")>>
    /\ PlayChordEffect(t.keys, t.duration, adv)
    /\ uncaught' =
           (uncaught \/ playChord(audioContext, t.keys, t.duration, currentTime, adv).threw)
    /\ UNCHANGED <<fold, BEAT_DURATION, nowMs, timerIds, runs, lastOp>>

\* The completion timer fires: onComplete()
FireComplete(t) ==
    /\ CanFire(t)
    /\ t.kind = "complete"
    /\ timers' = timers \ {t}
    /\ fired' = Append(fired, Callback(t, "onComplete"))
    /\ UNCHANGED <<fold, BEAT_DURATION, nowMs, timerIds, runs, uncaught, lastOp>>
    /\ UNCHANGED engineVars

----------------------------------------------------------------------------
(* The fold's delays as JavaScript numbers *)

\* `delay + (note.duration * BEAT_DURATION)` is arithmetic on IEEE-754 doubles:
\* exact while the result has at most 53 significant bits, rounded to the
\* nearest double (ties to even) beyond.  On the small values of the scheduler
\* above the two agree.  Here a number is a whole count of quarter seconds
\* (half beats for a duration) written as hi * Limb + lo, so that counts of
\* 2^53 and more can be written; scaling by a power of two does not change
\* how a double rounds.
Limb == 2^30
Num(hi, lo) == [hi |-> hi, lo |-> lo]

\* The distance between neighbouring doubles at hi * Limb + lo: 1 below 2^53,
\* doubling with every further binary order of magnitude.
RECURSIVE Spacing(_, _, _)
Spacing(hi, top, s) == IF hi < top THEN s ELSE Spacing(hi, top * 2, s * 2)

\* The double nearest to hi * Limb + lo, ties to even.
RoundToDouble(hi, lo) ==
    LET s == Spacing(hi, 2^23, 1)
        q == lo % s
        down == lo - q
        up == (2 * q > s) \/ (2 * q = s /\ (down \div s) % 2 = 1)
        lo2 == IF up THEN down + s ELSE down
    IN IF lo2 = Limb THEN Num(hi + 1, 0) ELSE Num(hi, lo2)

\* a + b
NumAdd(a, b) ==
    LET lo == a.lo + b.lo
    IN RoundToDouble(a.hi + b.hi + (lo \div Limb), lo % Limb)

\* a * b, for a whole b of at most 2
NumTimes(a, b) ==
    LET lo == a.lo * b
    IN RoundToDouble(a.hi * b + (lo \div Limb), lo % Limb)

\* a < b
NumLess(a, b) == a.hi < b.hi \/ (a.hi = b.hi /\ a.lo < b.lo)

\* notes.reduce((delay, note, index) => scheduleNotePlay(...), 0) from position
\* i on: the delay each scheduleNotePlay call receives, then totalDelay.
RECURSIVE reduceDelays(_, _, _)
reduceDelays(notes, i, delay) ==
    IF i > Len(notes) THEN <<delay>>
    ELSE <<delay>> \o
         reduceDelays(notes, i + 1,
                      NumAdd(delay, NumTimes(notes[i].duration, BEAT_DURATION)))

\* Scores whose durations range from none over an eighth note to 2^53 half beats.
FoldDurations == {Num(0, 0), Num(0, 1), Num(0, 2), Num(2^23, 0)}
FoldNoteSeqs ==
    UNION {[1..n -> {[keys |-> <<"c/4">>, duration |-> d] : d \in FoldDurations}] :
               n \in 0..MaxFoldNotes}

\* The fold of playAllNotes over notes
Reduce(notes) ==
    /\ fold' = [notes |-> notes, delays |-> reduceDelays(notes, 1, Num(0, 0))]
    /\ UNCHANGED <<BEAT_DURATION, nowMs, timers, timerIds, runs, fired, uncaught, lastOp>>
    /\ UNCHANGED engineVars

----------------------------------------------------------------------------
(* Specifications *)

Init ==
    /\ env \in {"none", "noaudio", "browser"}
    /\ audioContext = 0
    /\ isInitialized = FALSE
    /\ ctxState = "none"
    /\ resumePending = FALSE
    /\ currentTime = 0
    /\ contextsCreated = 0
    /\ units = <<>>
    /\ unitsCreated = 0
    /\ BEAT_DURATION \in BeatDurations
    /\ nowMs = 0
    /\ timers = {}
    /\ timerIds = 0
    /\ runs = <<>>
    /\ fired = <<>>
    /\ uncaught = FALSE
    /\ fold = [notes |-> <<>>, delays |-> <<>>]
    /\ lastOp = [op |-> "none", threw |-> FALSE, keys |-> <<>>]

\* The score player: the engine is initialized and resumed by the page, runs
\* are started, and the event loop delivers the timed actions.
Next ==
    \/ Initialize
    \/ \E notes \in NoteSeqs : PlayAllNotes(notes)
    \/ Tick
    \/ \E t \in timers : \E adv \in Advances(t.keys) : FireNote(t, adv)
    \/ \E t \in timers : FireComplete(t)

Spec == Init /\ [][Next]_vars

\* The engine alone, driven by direct calls.
NextEngine ==
    \/ Initialize
    \/ WindowAppears
    \/ Resume
    \/ ResumeSettle
    \/ AudioTick
    \/ \E keys \in ChordKeyLists : \E d \in ChordDurations :
           \E adv \in Advances(keys) : PlayChordCall(keys, d, adv)

SpecEngine == Init /\ [][NextEngine]_vars

\* The fold alone, over scores of any durations.
NextFold == \E notes \in FoldNoteSeqs : Reduce(notes)

SpecFold == Init /\ [][NextFold]_vars

----------------------------------------------------------------------------
(* Properties *)

\* The notes of run r and what it armed
NotesOf(r) == runs[r].notes
ArmedBy(r) == runs[r].armed

\* Seconds (in quarter seconds) the notes before position i last: the sum of
\* duration * B over notes 1 .. i - 1
RECURSIVE SumBefore(_, _)
SumBefore(notes, i) ==
    IF i <= 1 THEN 0
    ELSE SumBefore(notes, i - 1) + notes[i - 1].duration * BEAT_DURATION

\* Milliseconds of q quarter seconds
MsOfQuarters(q) == (q * 1000) \div 4

\* No timed action of run r is pending
RunDone(r) == \A t \in timers : t.run # r

\* The callbacks of run r fired so far, in order
FiredOf(r) == SelectSeq(fired, LAMBDA e : e.run = r)
\* ... and those the page sees (onNoteStart, onComplete)
VisualOf(r) == SelectSeq(fired, LAMBDA e : e.run = r /\ e.cb # "playChord")

\* Positions in fired of run r's callback cb for note index i
Positions(r, cb, i) ==
    {k \in 1..Len(fired) : fired[k].run = r /\ fired[k].cb = cb /\ fired[k].index = i}

PositiveDurations(notes) == \A i \in 1..Len(notes) : notes[i].duration > 0

\* C1: a run arms note 0 at offset 0, note i+1 at offset[i] +
\* notes[i].duration * B, and the completion at the sum of all duration * B
\* (offsets in seconds, the timers' delays in milliseconds).
C1_CumulativeOffsets ==
    \A r \in 1..Len(runs) :
        LET notes == NotesOf(r)
            armed == ArmedBy(r)
            N == Len(notes)
        IN /\ Len(armed) = N + 1
           /\ \A i \in 1..N : armed[i].kind = "note" /\ armed[i].index = i - 1
           /\ N > 0 => armed[1].delayMs = 0
           /\ \A i \in 1..(N - 1) :
                  armed[i + 1].delayMs =
                      armed[i].delayMs + MsOfQuarters(notes[i].duration * BEAT_DURATION)
           /\ armed[N + 1].kind = "complete"
           /\ armed[N + 1].delayMs = MsOfQuarters(SumBefore(notes, N + 1))
           /\ \A t \in timers : t.run = r =>
                  \E k \in 1..(N + 1) :
                      /\ t.kind = armed[k].kind /\ t.index = armed[k].index
                      /\ t.delayMs = armed[k].delayMs
                      /\ t.armedAt = runs[r].startedAt

\* a run over two notes of different lengths, at two half seconds per beat
C1_Witness ==
    \E r \in 1..Len(runs) :
        /\ Len(NotesOf(r)) = 2
        /\ NotesOf(r)[1].duration = 2
        /\ NotesOf(r)[2].duration = 1
        /\ BEAT_DURATION = 2
        /\ ArmedBy(r)[3].delayMs = 1500

\* C2: once a second run has started, only callbacks of the latest run fire:
\* every callback fired belongs to the run that was the latest when it fired.
C2_OnlyLatestRunFires ==
    \A k \in 1..Len(fired) : fired[k].run = fired[k].latestRun

\* C3: in a run over notes of positive durations, onComplete is invoked at most
\* once, only after onNoteStart(i) and playChord of every note i, and exactly
\* once when all the run's timed actions have fired.
C3_CompleteOnceAfterAll ==
    \A r \in 1..Len(runs) :
        PositiveDurations(NotesOf(r)) =>
            LET N == Len(NotesOf(r))
                done == Positions(r, "onComplete", N)
            IN /\ Cardinality(done) <= 1
               /\ RunDone(r) => Cardinality(done) = 1
               /\ \A c \in done : \A i \in 0..(N - 1) :
                      /\ \E k \in Positions(r, "onNoteStart", i) : k < c
                      /\ \E k \in Positions(r, "playChord", i) : k < c

\* a run over two notes has completed
C3_Witness ==
    \E r \in 1..Len(runs) :
        /\ Len(NotesOf(r)) = 2
        /\ PositiveDurations(NotesOf(r))
        /\ Positions(r, "onComplete", 2) # {}

\* C4: in a run, onNoteStart fires in index order, each index at most once (and
\* exactly once when the run's timed actions have all fired), however late the
\* event loop delivers each timer.
C4_NotesInIndexOrder ==
    \A r \in 1..Len(runs) :
        LET N == Len(NotesOf(r))
            starts == SelectSeq(fired, LAMBDA e : e.run = r /\ e.cb = "onNoteStart")
        IN /\ Len(starts) <= N
           /\ \A k \in 1..Len(starts) : starts[k].index = k - 1
           /\ RunDone(r) => Len(starts) = N

\* a two-note run whose second note was delivered late (after its due time)
\* and after the first
C4_Witness ==
    \E r \in 1..Len(runs) :
        /\ Len(NotesOf(r)) = 2
        /\ NotesOf(r)[1].duration = 2
        /\ Positions(r, "onNoteStart", 1) # {}
        /\ \E k \in Positions(r, "playChord", 1) : k = Len(fired) /\ nowMs > fired[k].due

\* C5: a run over the empty sequence arms only the completion, with delay 0;
\* it invokes neither onNoteStart nor playChord, and onComplete once its timer
\* has fired.
C5_EmptyRun ==
    \A r \in 1..Len(runs) :
        NotesOf(r) = <<>> =>
            /\ Len(ArmedBy(r)) = 1
            /\ ArmedBy(r)[1].kind = "complete"
            /\ ArmedBy(r)[1].delayMs = 0
            /\ \A k \in 1..Len(FiredOf(r)) : FiredOf(r)[k].cb = "onComplete"
            /\ RunDone(r) => Len(FiredOf(r)) = 1

\* an empty run has completed
C5_Witness ==
    \E r \in 1..Len(runs) :
        NotesOf(r) = <<>> /\ RunDone(r) /\ Len(FiredOf(r)) = 1

\* C6: the tones of one playChord call all start at the same instant and all
\* stop at that instant + durationSeconds.
C6_ChordUnison ==
    \A i \in 1..Len(units) : \A j \in 1..Len(units) :
        (units[i].configured /\ units[j].configured) =>
            /\ units[i].startAt = units[j].startAt
            /\ units[i].stopAt = units[j].startAt + units[j].duration

\* C7: once initialized, no step creates another timeline clock or changes or
\* drops the existing one, and a further initialize() raises nothing.
C7_InitializeIdempotent ==
    [][isInitialized =>
          /\ isInitialized'
          /\ audioContext' = audioContext
          /\ contextsCreated' = contextsCreated
          /\ (lastOp'.op = "initialize" => ~lastOp'.threw)]_vars

\* initialize() called again on an engine that has already played a chord
C7_Witness ==
    /\ isInitialized
    /\ lastOp.op = "initialize"
    /\ unitsCreated > 0
    /\ contextsCreated = 1

\* C8: playChord on an engine without a timeline clock changes nothing of the
\* engine, creates no unit and raises nothing.
C8_PlayChordUninitializedNoOp ==
    [][(audioContext = 0 /\ lastOp'.op = "playChord") =>
          /\ UNCHANGED <<audioContext, isInitialized, ctxState, resumePending,
                         currentTime, contextsCreated, units, unitsCreated>>
          /\ ~lastOp'.threw]_vars

\* playChord was called on an engine that was never initialized
C8_Witness ==
    /\ audioContext = 0
    /\ lastOp.op = "playChord"

\* C9: without a timeline clock no tone is produced and no callback raises,
\* and a run whose timed actions have all fired has invoked onNoteStart(0),
\* ..., onNoteStart(N-1) and then onComplete, each once and each armed at its
\* computed offset: the same stream as with a working engine.
C9_VisualStreamWithoutAudio ==
    /\ audioContext = 0 =>
           /\ unitsCreated = 0
           /\ units = <<>>
           /\ ~uncaught
    /\ \A r \in 1..Len(runs) :
           LET N == Len(NotesOf(r))
               seen == VisualOf(r)
           IN /\ \A k \in 1..Len(seen) :
                     /\ seen[k].cb = IF k <= N THEN "onNoteStart" ELSE "onComplete"
                     /\ seen[k].index = IF k <= N THEN k - 1 ELSE N
                     /\ seen[k].due =
                            runs[r].startedAt + MsOfQuarters(SumBefore(NotesOf(r), k))
              /\ RunDone(r) => Len(seen) = N + 1

\* a two-note run has completed in a browser without AudioContext, where
\* initialize() failed
C9_Witness ==
    /\ env = "noaudio"
    /\ audioContext = 0
    /\ \E r \in 1..Len(runs) :
           Len(NotesOf(r)) = 2 /\ RunDone(r) /\ Len(VisualOf(r)) = 3

\* C10: every tone has the table's frequency for its key when the key is one
\* of the 14 pitch names, and 440 Hz for any other key, and the lookup makes
\* no call raise.
C10_PitchLookup ==
    /\ \A i \in 1..Len(units) :
           /\ units[i].configured
           /\ units[i].frequency =
                  IF units[i].key \in DOMAIN noteMap THEN noteMap[units[i].key] ELSE 44000
    /\ ~(lastOp.op = "playChord" /\ lastOp.threw)

\* C11: over a non-empty score of positive durations the delays the fold
\* computes are strictly increasing from note to note, and totalDelay is
\* strictly greater than the last note's delay.
C11_OffsetsStrictlyIncreasing ==
    (fold.notes # <<>> /\ \A i \in 1..Len(fold.notes) :
                              NumLess(Num(0, 0), fold.notes[i].duration)) =>
        \A i \in 1..(Len(fold.delays) - 1) : NumLess(fold.delays[i], fold.delays[i + 1])

\* C12: every pending timed action is due at its run's start plus the offset
\* folded for it; no step changes a pending action, the only action a step
\* removes is the one it delivers, and a step that delivers a callback (however
\* late) arms nothing.
C12_LookAhead ==
    [][/\ \A t \in timers' :
              DueAt(t) = runs'[t.run].startedAt
                           + MsOfQuarters(SumBefore(runs'[t.run].notes, t.index + 1))
       /\ \A t \in timers :
              t \in timers' \/
                  (/\ Len(fired') > Len(fired)
                   /\ fired'[Len(fired')].run = t.run
                   /\ fired'[Len(fired')].index = t.index)
       /\ fired' # fired =>
              /\ timers' \subseteq timers
              /\ Cardinality(timers') = Cardinality(timers) - 1
              /\ timerIds' = timerIds]_vars

\* note 0 of a run has just been delivered after its due time while note 1 is
\* still pending, due at the offset folded for it
C12_Witness ==
    \E r \in 1..Len(runs) :
        /\ Len(fired) > 0
        /\ fired[Len(fired)].run = r
        /\ fired[Len(fired)].cb = "playChord"
        /\ fired[Len(fired)].index = 0
        /\ nowMs > fired[Len(fired)].due
        /\ \E t \in timers :
               /\ t.run = r /\ t.kind = "note" /\ t.index = 1
               /\ DueAt(t) = runs[r].startedAt
                               + MsOfQuarters(NotesOf(r)[1].duration * BEAT_DURATION)
               /\ DueAt(t) > fired[Len(fired)].due

\* C13: while there is no window the engine stays uninitialized (no timeline
\* clock, isInitialized false, no context ever constructed) and no initialize()
\* call raises, however many are made; once there is a window, initialize() on
\* the still uninitialized engine creates the clock and raises nothing.
C13_InitializeWithoutWindow ==
    [][/\ env = "none" =>
              /\ audioContext = 0 /\ ~isInitialized /\ contextsCreated = 0
              /\ ~(lastOp.op = "initialize" /\ lastOp.threw)
       /\ env' = "none" =>
              /\ audioContext' = 0 /\ ~isInitialized' /\ contextsCreated' = 0
              /\ ~(lastOp'.op = "initialize" /\ lastOp'.threw)
       /\ (env = "browser" /\ ~isInitialized /\ lastOp'.op = "initialize") =>
              /\ isInitialized'
              /\ audioContext' # 0
              /\ ~lastOp'.threw]_vars

\* initialize() was called without a window (the only way an engine in a
\* browser is uninitialized after initialize() returned normally), and there
\* is a window now
C13_Witness ==
    /\ env = "browser"
    /\ ~isInitialized
    /\ audioContext = 0
    /\ lastOp.op = "initialize" /\ ~lastOp.threw

\* A step that is a resume() call: resume is the latest call after it, and the
\* step is none of those that leave the latest call as it is (the window
\* appearing, the clock advancing, a pending resume settling).
ResumeCalled ==
    /\ lastOp'.op = "resume"
    /\ env' = env
    /\ currentTime' = currentTime
    /\ resumePending => resumePending'

\* C14: a resume() call asks the timeline clock to resume exactly when the
\* clock exists and is suspended, and otherwise changes nothing of the engine
\* or the clock; it never raises.  The clock's state changes only by a resume
\* asked for while it was suspended.
C14_ResumeFrame ==
    [][/\ ResumeCalled =>
              /\ ~lastOp'.threw
              /\ IF audioContext # 0 /\ ctxState = "suspended"
                 THEN /\ resumePending'
                      /\ UNCHANGED <<env, audioContext, isInitialized, ctxState, currentTime,
                                     contextsCreated, units, unitsCreated>>
                 ELSE UNCHANGED engineVars
       /\ (~resumePending /\ resumePending') =>
              (audioContext # 0 /\ ctxState = "suspended")
       /\ (audioContext # 0 /\ ctxState' # ctxState) =>
              (resumePending /\ ctxState = "suspended" /\ ctxState' = "running")]_vars

\* resume() was called in a browser on an engine that has no clock yet
C14_Witness ==
    /\ lastOp.op = "resume"
    /\ env = "browser"
    /\ audioContext = 0
    /\ ~resumePending

\* C15: every onNoteStart(i) in the log is immediately followed by the
\* playChord of the same run and note, and every playChord immediately
\* preceded by that onNoteStart; the playChord gets the note's keys and a
\* duration equal to the difference between the next armed offset and the
\* note's own.
C15_StartThenChord ==
    \A k \in 1..Len(fired) :
        /\ fired[k].cb = "onNoteStart" =>
               /\ k < Len(fired)
               /\ fired[k + 1].cb = "playChord"
               /\ fired[k + 1].run = fired[k].run
               /\ fired[k + 1].index = fired[k].index
        /\ fired[k].cb = "playChord" =>
               LET r == fired[k].run
                   i == fired[k].index + 1
               IN /\ k > 1
                  /\ fired[k - 1].cb = "onNoteStart"
                  /\ fired[k - 1].run = r
                  /\ fired[k - 1].index = fired[k].index
                  /\ fired[k].keys = NotesOf(r)[i].keys
                  /\ fired[k].duration = NotesOf(r)[i].duration * BEAT_DURATION
                  /\ MsOfQuarters(fired[k].duration) =
                         ArmedBy(r)[i + 1].delayMs - ArmedBy(r)[i].delayMs

\* the longer note has been played at two half seconds per beat, after another
\* note of its run
C15_Witness ==
    \E k \in 1..Len(fired) :
        /\ fired[k].cb = "playChord"
        /\ fired[k].index = 1
        /\ fired[k].keys = <<"d/5">>
        /\ fired[k].duration = 4
        /\ BEAT_DURATION = 2

\* C16: for every tone, the gain is set to its initial amplitude at the instant
\* the oscillator starts, the decay ramp ends at the instant the oscillator is
\* told to stop, and that instant is the start plus the duration.
C16_EnvelopeMatchesTone ==
    \A i \in 1..Len(units) :
        units[i].configured =>
            /\ units[i].gainSetAt = units[i].startAt
            /\ units[i].rampEndAt = units[i].stopAt
            /\ units[i].stopAt = units[i].startAt + units[i].duration

\* C17: after a playChord(keys, d) call on an initialized engine the units it
\* created are one per element of keys, in the order of keys, each set to the
\* frequency looked up for its key (none for empty keys).
C17_OneUnitPerKey ==
    (lastOp.op = "playChord" /\ audioContext # 0) =>
        /\ Len(units) = Len(lastOp.keys)
        /\ \A i \in 1..Len(units) :
               /\ units[i].key = lastOp.keys[i]
               /\ units[i].configured
               /\ units[i].frequency = getFrequency(units[i].key).hz

\* C18: the step in which a run is started invokes no callback and leaves
\* every action the run armed pending (N + 1 of them, those due at once
\* included); a step that invokes callbacks starts no run, delivers exactly one
\* timed action of a run started before, and the callbacks it invokes are that
\* action's alone.
C18_NoSynchronousCallback ==
    [][/\ runs' # runs =>
              /\ fired' = fired
              /\ Len(runs') = Len(runs) + 1
              /\ Cardinality({t \in timers' : t.run = Len(runs')})
                     = Len(runs'[Len(runs')].notes) + 1
       /\ fired' # fired =>
              /\ runs' = runs
              /\ Cardinality(timers \ timers') = 1
              /\ Len(fired') > Len(fired)
              /\ SubSeq(fired', 1, Len(fired)) = fired
              /\ \A t \in timers \ timers' :
                     \A k \in (Len(fired) + 1)..Len(fired') :
                         /\ fired'[k].run = t.run
                         /\ fired'[k].run <= Len(runs)
                         /\ fired'[k].index = t.index
                         /\ nowMs >= DueAt(t)]_vars

\* the first note of a run (due at once) has been delivered without the
\* event loop's clock having advanced since the run started, the run's other
\* actions still pending
C18_Witness ==
    \E r \in 1..Len(runs) :
        /\ NotesOf(r) # <<>>
        /\ Positions(r, "onNoteStart", 0) # {}
        /\ nowMs = runs[r].startedAt
        /\ \E t \in timers : t.run = r /\ t.kind = "complete"

\* C19: before and after every step isInitialized is true exactly when
\* audioContext is not null, and a step taken with a non-null audioContext
\* leaves it the same context.
C19_FlagMatchesContext ==
    [][/\ isInitialized <=> audioContext # 0
       /\ isInitialized' <=> audioContext' # 0
       /\ audioContext # 0 => audioContext' = audioContext]_vars

\* an initialized engine on which resume() was called after chords were played
C19_Witness ==
    /\ isInitialized
    /\ audioContext # 0
    /\ ctxState = "running"
    /\ unitsCreated > 0
    /\ lastOp.op = "resume"

====
